---- MODULE Spec2Model ----
(***************************************************************************)
(* Model of the daily-stock-aggregator services.                           *)
(*                                                                         *)
(*   Scraper.run / Scraper._pull_data      the time-trigger scheduler      *)
(*   Scraper._update_tickers               one update pass over a class    *)
(*   Daily_Aggregator._update_ticker       bootstrap / roll of the buffer  *)
(*   Daily_Aggregator.run                  the once-a-day wake loop        *)
(*   Scraper.__init__                      the start of the Scraper        *)
(*   Abstract_Analyzer                     a subscriber of the publisher   *)
(*   two processes                         two services started on a host  *)
(*                                                                         *)
(* A behaviour follows one of these pieces of one service instance; the    *)
(* variable scenario says which.  Time is in whole seconds of market       *)
(* (US/Eastern) time counted from a Monday 00:00:00, weekday 0 = Monday as *)
(* in datetime.weekday().                                                  *)
(***************************************************************************)
EXTENDS Integers, Sequences, FiniteSets, TLC

VARIABLES
    scenario,                   \* which piece of which service is followed
    \* ---- Scraper.run / Scraper._pull_data
    timeframe,                  \* self.timeframe
    now,                        \* the wall clock
    cur_time,                   \* run(): cur_time, the clock as last read
    next_time,                  \* run(): next_time, the next trigger
    pc,                         \* position of run()
    have_done_mkt_close_pull,   \* self.have_done_mkt_close_pull
    drift,                      \* seconds spent inside the catch-up loop
    pulls,                      \* number of polling cycles run so far
    first_time,                 \* next_time when the main loop was entered
    slept,                      \* did the last wait loop sleep at all
    lastPull,                   \* what the last _pull_data did
    sincePoll,                  \* closed-market polls/passes since the last in-hours poll
    \* ---- Scraper._update_tickers
    n_market_tickers,           \* self.n_market_tickers
    n_daily_tickers,            \* self.n_daily_tickers
    market_tickers,             \* self.market_tickers: is the handle created
    market_prev_update,         \* self.market_prev_update
    daily_tickers,              \* self.daily_tickers
    daily_prev_update,          \* self.daily_prev_update
    upd,                        \* the running pass: class, loop index ii, and
                                \* the seconds slept since the last fetch ended
    lastUpd,                    \* what the last loop iteration was given and did
    sent,                       \* every (ticker, date) sent so far, and whether
                                \* one of them was sent a second time
    \* ---- Daily_Aggregator
    num_tickers,                \* self.num_tickers
    tickers,                    \* self.tickers: is the handle created
    prices,                     \* self.prices, one row sequence per ticker
    dates,                      \* self.dates, one row sequence per ticker
    agg,                        \* the running loop: position, index ii, loops
                                \* done, seconds slept since the last fetch ended
    lastAgg,                    \* what the last _update_ticker was given and did
    host_offset,                \* host local time minus market time, seconds
    wake,                       \* Daily_Aggregator.run: the last wake
    \* ---- the main blocks
    scraper,                    \* Scraper.py: the Scraper that is built and run
    analyzer,                   \* Example_Analyzer.py: the analyzer and its socket
    host,                       \* the bound ports of a host and its two processes
    \* ---- both publishers
    sock                        \* the messages sent by the last update

schedVars == <<timeframe, now, cur_time, next_time, pc,
               have_done_mkt_close_pull, drift, pulls, first_time, slept,
               lastPull, sincePoll>>

scraperVars == <<n_market_tickers, n_daily_tickers, market_tickers,
                 market_prev_update, daily_tickers, daily_prev_update, upd,
                 lastUpd, sent>>

aggVars == <<num_tickers, tickers, prices, dates, agg, lastAgg, host_offset,
             wake>>

mainVars == <<scraper, analyzer, host>>

notSched == <<scenario, mainVars, scraperVars, aggVars, sock>>

vars == <<scenario, mainVars, schedVars, scraperVars, aggVars, sock>>

(***************************************************************************)
(* Program constants                                                       *)
(***************************************************************************)
SecsPerMinute == 1 * 60
SecsPerHour == 60 * 60
SecsPerDay == 24 * 60 * 60
DaysPerWeek == 5 + 2
MARKET_OPEN_TIME == 9 * SecsPerHour + 30 * SecsPerMinute
MARKET_CLOSE_TIME == 16 * SecsPerHour
DailyStartTime == 16 * SecsPerHour + 1 * SecsPerMinute
GraceSecs == 30
SleepSecs == 5
FirstWeekendDay == 5
WakeGraceSecs == 180
ROLLING_BUF_DAYS == 30

YAHOO_FINANCE_REQ_PER_HOUR == 2000

\* math.ceil(1 / (YAHOO_FINANCE_REQ_PER_HOUR / 3600))
YF_SEC_BETWEEN_REQS ==
    (SecsPerHour + YAHOO_FINANCE_REQ_PER_HOUR - 1) \div YAHOO_FINANCE_REQ_PER_HOUR

(***************************************************************************)
(* Bounds of the model                                                     *)
(***************************************************************************)
MaxCycles == 5          \* polling cycles followed per behaviour
MaxIterDelay == 1       \* seconds one catch-up iteration may take
MaxDrift == 2           \* seconds the whole catch-up loop may take
MaxTs == 3              \* record timestamps a Scraper fetch may carry
MaxAggLoops == 2        \* loops of Daily_Aggregator.run followed
MaxBootLen == 32        \* records a bootstrap fetch may return
BootEnd == 100          \* the newest day of a bootstrap fetch

\* Python's None in a slot of timestamps: a value that is no timestamp
None == 0 - 1

Max(a, b) == IF a >= b THEN a ELSE b

At(day, h, m, s) == day * SecsPerDay + h * SecsPerHour + m * SecsPerMinute + s

\* the instants at which the process may be started
StartTimes == { At(0, 9, 20, 0),      \* Monday, before the open
                At(0, 15, 40, 30),    \* Monday, on a trigger shortly before the close
                At(3, 16, 30, 0),     \* Thursday, after the close
                At(4, 15, 40, 0),     \* Friday, shortly before the close
                At(5, 12, 0, 0) }     \* Saturday

\* how long one polling cycle may take (n tickers at >= 2 s each)
CycleDurations == { 10, 18 * SecsPerHour }

\* by how much the wait loop may overshoot the trigger
WakeOvershoots == { 0, SleepSecs - 1 }

valid_options == {"1m", "2m", "5m", "15m", "30m", "60m", "90m", "1d"}

(***************************************************************************)
(* Calendar helpers (datetime)                                             *)
(***************************************************************************)
Weekday(t) == (t \div SecsPerDay) % DaysPerWeek
TimeOfDay(t) == t % SecsPerDay
DayStart(t) == t - TimeOfDay(t)

\* int(self.timeframe[:-1])
MinToWait(tf) ==
    CASE tf = "1m" -> 1 [] tf = "2m" -> 2 [] tf = "5m" -> 5
      [] tf = "15m" -> 15 [] tf = "30m" -> 30 [] tf = "60m" -> 60
      [] tf = "90m" -> 90

\* the timedelta added to next_time for one cadence step
Increment(tf) ==
    IF tf = "1d" THEN SecsPerDay ELSE MinToWait(tf) * SecsPerMinute

\* (variant: the start time is the clock as read)
StartTriggerNow(tf, t) == t

\* run(): the start time computed from the current day
StartTrigger(tf, t) ==
    IF tf = "1d"
    THEN DayStart(t) + DailyStartTime + GraceSecs
    ELSE DayStart(t) + MARKET_OPEN_TIME + MinToWait(tf) * SecsPerMinute + GraceSecs

\* _pull_data(): the market-is-open test
MarketOpen(t) ==
    /\ MARKET_OPEN_TIME <= TimeOfDay(t)
    /\ TimeOfDay(t) <= MARKET_CLOSE_TIME
    /\ Weekday(t) < FirstWeekendDay

\* (variant: the catch-up loop written with > instead of >=)
MissedStrict(cur, next) == cur > next

\* the loop condition of the catch-up loop:  while cur_time >= next_time
Missed(cur, next) == cur >= next

\* (variant: the wait loop left out)
MustWaitNever(cur, next) == FALSE

\* the loop condition of the wait loop:  while cur_time < next_time
MustWait(cur, next) == cur < next

\* (variant: the next trigger counted from the clock, "now + increment")
NextTriggerFromNow(prev, cur, tf) == cur + Increment(tf)

\* run(): the next time to pull data, computed after a cycle
NextTrigger(prev, cur, tf) == prev + Increment(tf)

\* _pull_data(): is the pass over the market tickers run
MarketPass(open, flag) == open \/ ~flag

\* (variant: the post-close pull does not set the flag)
FlagAfterPullNeverSet(open, flag) == IF open THEN FALSE ELSE flag

\* _pull_data(): the one-shot flag after the market branch
FlagAfterPull(open, flag) ==
    IF open THEN FALSE
    ELSE IF ~flag THEN TRUE
    ELSE flag

\* (variant: the daily pass nested in the market branches)
DailyPassWhenMarket(open, flag) == open \/ ~flag

\* _pull_data(): is the pass over the daily tickers run
DailyPass(open, flag) == TRUE

(***************************************************************************)
(* Scraper.run                                                             *)
(***************************************************************************)
NoPull == [time |-> -1, market |-> FALSE, daily |-> FALSE, open |-> FALSE,
           raised |-> FALSE]

\* (variant: the call of _pull_data without its try/except)
AfterPullUncaught(raised) == IF raised THEN "dead" ELSE "advance"

\* run(): try: self._pull_data() / except Exception: log; where run() goes on
AfterPull(raised) == "advance"

\* no Scraper.run in this behaviour
SchedIdle ==
    /\ timeframe = "1d"
    /\ cur_time = 0 /\ next_time = 0
    /\ pc = "off"
    /\ have_done_mkt_close_pull = FALSE
    /\ drift = 0 /\ pulls = 0 /\ first_time = 0 /\ slept = FALSE
    /\ lastPull = NoPull
    /\ sincePoll = [seen |-> FALSE, polls |-> 0, passes |-> 0]

SchedInit ==
    /\ timeframe \in valid_options
    /\ now \in StartTimes
    /\ cur_time = 0 /\ next_time = 0
    /\ pc = "start"
    /\ have_done_mkt_close_pull = FALSE
    /\ drift = 0 /\ pulls = 0 /\ first_time = 0 /\ slept = FALSE
    /\ lastPull = NoPull
    /\ sincePoll = [seen |-> FALSE, polls |-> 0, passes |-> 0]

\* run(): read the clock and compute the start time
RunStart ==
    /\ scenario = "Scraper.run" /\ pc = "start"
    /\ cur_time' = now
    /\ next_time' = StartTrigger(timeframe, now)
    /\ pc' = "catchup"
    /\ UNCHANGED <<notSched, timeframe, now, have_done_mkt_close_pull, drift,
                   pulls, first_time, slept, lastPull, sincePoll>>

\* run(): one iteration of  while cur_time >= next_time
CatchUp ==
    /\ scenario = "Scraper.run" /\ pc = "catchup"
    /\ Missed(cur_time, next_time)
    /\ next_time' = next_time + Increment(timeframe)
    /\ \E d \in 0..MaxIterDelay :
          /\ drift + d <= MaxDrift
          /\ drift' = drift + d
          /\ now' = now + d
          /\ cur_time' = now + d
    /\ UNCHANGED <<notSched, timeframe, pc, have_done_mkt_close_pull, pulls,
                   first_time, slept, lastPull, sincePoll>>

\* run(): the catch-up loop is left and the main loop entered
EnterMainLoop ==
    /\ scenario = "Scraper.run" /\ pc = "catchup"
    /\ ~Missed(cur_time, next_time)
    /\ pc' = "wait"
    /\ first_time' = next_time
    /\ UNCHANGED <<notSched, timeframe, now, cur_time, next_time,
                   have_done_mkt_close_pull, drift, pulls, slept, lastPull,
                   sincePoll>>

\* run(): while cur_time < next_time: sleep(5); read the clock
WaitLoop ==
    /\ scenario = "Scraper.run" /\ pc = "wait"
    /\ pulls < MaxCycles
    /\ IF MustWait(cur_time, next_time)
       THEN \E o \in WakeOvershoots :
               /\ next_time + o >= cur_time + SleepSecs
               /\ now' = Max(now, next_time + o)
               /\ cur_time' = Max(now, next_time + o)
               /\ slept' = TRUE
       ELSE /\ slept' = FALSE
            /\ UNCHANGED <<now, cur_time>>
    /\ pc' = "pull"
    /\ UNCHANGED <<notSched, timeframe, next_time, have_done_mkt_close_pull,
                   drift, pulls, first_time, lastPull, sincePoll>>

\* _pull_data() inside its try/except: which passes are run, the one-shot
\* flag, and whether an exception was raised on the way
PullData ==
    /\ scenario = "Scraper.run" /\ pc = "pull"
    /\ \E raised \in BOOLEAN :
       LET open == MarketOpen(now)
           market == MarketPass(open, have_done_mkt_close_pull)
       IN  /\ pc' = AfterPull(raised)
           /\ have_done_mkt_close_pull' =
                 FlagAfterPull(open, have_done_mkt_close_pull)
           /\ lastPull' = [time |-> now, market |-> market,
                           daily |-> DailyPass(open, have_done_mkt_close_pull),
                           open |-> open, raised |-> raised]
           /\ sincePoll' =
                 IF open
                 THEN [seen |-> TRUE, polls |-> 0, passes |-> 0]
                 ELSE [seen |-> sincePoll.seen,
                       polls |-> sincePoll.polls + 1,
                       passes |-> sincePoll.passes + (IF market THEN 1 ELSE 0)]
    /\ \E dur \in CycleDurations : now' = now + dur
    /\ pulls' = pulls + 1
    /\ UNCHANGED <<notSched, timeframe, cur_time, next_time, drift,
                   first_time, slept>>

\* run(): compute the next time to pull data, read the clock, warn on lag
Advance ==
    /\ scenario = "Scraper.run" /\ pc = "advance"
    /\ next_time' = NextTrigger(next_time, now, timeframe)
    /\ cur_time' = now
    /\ pc' = "wait"
    /\ UNCHANGED <<notSched, timeframe, now, have_done_mkt_close_pull, drift,
                   pulls, first_time, slept, lastPull, sincePoll>>

(***************************************************************************)
(* Scraper._update_tickers                                                 *)
(*                                                                         *)
(* A fetched record is represented by its timestamp; its price row is cut  *)
(* and sent with the same indices as the timestamp.  The provider returns  *)
(* its records in ascending order of timestamp.                            *)
(***************************************************************************)
Timestamps == 1..MaxTs

RECURSIVE Ascending(_)
Ascending(S) ==
    IF S = {} THEN <<>>
    ELSE LET m == CHOOSE x \in S : \A y \in S : x <= y
         IN  <<m>> \o Ascending(S \ {m})

\* what cur_ticker.history() may do: raise, or return records
Raised == [raised |-> TRUE, rows |-> <<>>]

Returned(rows) == [raised |-> FALSE, rows |-> rows]

HistoryResults == {Raised} \cup { Returned(Ascending(S)) : S \in SUBSET Timestamps }

\* (variant: index 0 in place of index -1)
HeadOf(s) == s[1]

\* d_dates[-1]
LastOf(s) == s[Len(s)]

\* ticker_strs[ii]
TickerStr(market, ii) == <<IF market THEN "market" ELSE "daily", ii>>

\* (variant: every fetched record taken as new)
NewDataPresentAlways(prev_update, d_dates) ==
    [k \in 1..Len(d_dates) |-> TRUE]

\* (variant: the comparison written with <=)
NewDataPresentOrEqual(prev_update, d_dates) ==
    [k \in 1..Len(d_dates) |-> prev_update <= d_dates[k]]

\* new_data_present = prev_update < d_dates
NewDataPresent(prev_update, d_dates) ==
    [k \in 1..Len(d_dates) |-> prev_update < d_dates[k]]

\* (variant: the whole fetch is cut from its first record)
ArgMaxFirst(b) == 1

\* np.argmax on a boolean array: the first index that is True, else the first
ArgMax(b) ==
    IF \E k \in 1..Len(b) : b[k]
    THEN CHOOSE k \in 1..Len(b) : b[k] /\ \A j \in 1..(k - 1) : ~b[j]
    ELSE 1

\* (variant: a single datetime is not sent)
PublishOneNot(ticker_str, date) == <<>>

\* _publish with a single datetime
PublishOne(ticker_str, date) == << [ticker |-> ticker_str, date |-> date] >>

\* (variant: the loop over the array run from its last index down)
PublishManyNewestFirst(ticker_str, d_dates) ==
    [k \in 1..Len(d_dates) |->
        [ticker |-> ticker_str, date |-> d_dates[Len(d_dates) + 1 - k]]]

\* _publish with an array of datetimes
PublishMany(ticker_str, d_dates) ==
    [k \in 1..Len(d_dates) |-> [ticker |-> ticker_str, date |-> d_dates[k]]]

\* the body of the try block for one ticker, after prev_updates[ii] was read
UpdateOne(ticker_str, prev_update, result) ==
    LET data == result.rows IN
    IF result.raised
    THEN [prev |-> prev_update, msgs |-> <<>>, outcome |-> "error"]
    ELSE IF data = <<>>
    THEN [prev |-> prev_update, msgs |-> <<>>, outcome |-> "empty"]
    ELSE IF prev_update = None
    THEN [prev |-> LastOf(data),
          msgs |-> PublishOne(ticker_str, LastOf(data)),
          outcome |-> "first"]
    ELSE LET new_data_present == NewDataPresent(prev_update, data)
         IN  IF \A k \in 1..Len(data) : new_data_present[k] = FALSE
             THEN [prev |-> prev_update, msgs |-> <<>>, outcome |-> "nonew"]
             ELSE [prev |-> LastOf(data),
                   msgs |-> PublishMany(ticker_str,
                               SubSeq(data, ArgMax(new_data_present), Len(data))),
                   outcome |-> "new"]

NoUpd == [market |-> FALSE, ii |-> -1, prev |-> None, data |-> Raised,
          outcome |-> "none", gap |-> None]

\* time.sleep(YF_SEC_BETWEEN_REQS) seen from the last fetch: nothing to count
\* before the first fetch
Slept(idle) == IF idle = None THEN None ELSE idle + YF_SEC_BETWEEN_REQS

NoneSent == [pairs |-> {}, twice |-> FALSE]

\* the record of what was sent, after the messages msgs of one update
Sending(msgs) ==
    LET Pair(k) == <<msgs[k].ticker, msgs[k].date>>
    IN  [pairs |-> sent.pairs \cup { Pair(k) : k \in 1..Len(msgs) },
         twice |-> \/ sent.twice
                   \/ \E k \in 1..Len(msgs) : Pair(k) \in sent.pairs
                   \/ \E j, k \in 1..Len(msgs) : j < k /\ Pair(j) = Pair(k)]

ScraperIdle ==
    /\ n_market_tickers = 0 /\ n_daily_tickers = 0
    /\ market_tickers = <<>> /\ market_prev_update = <<>>
    /\ daily_tickers = <<>> /\ daily_prev_update = <<>>
    /\ upd = [pc |-> "off", market |-> FALSE, ii |-> 0, idle |-> None]
    /\ lastUpd = NoUpd
    /\ sent = NoneSent

\* the sizes of the two ticker lists a Scraper is built with
MarketTickerCounts == {0, 1}

DailyTickerCounts == {0, 1, 2}

\* Scraper.__init__: the parallel arrays
ScraperInit ==
    /\ n_market_tickers \in MarketTickerCounts
    /\ n_daily_tickers \in DailyTickerCounts
    /\ market_tickers = [x \in 1..n_market_tickers |-> FALSE]
    /\ market_prev_update = [x \in 1..n_market_tickers |-> None]
    /\ daily_tickers = [x \in 1..n_daily_tickers |-> FALSE]
    /\ daily_prev_update = [x \in 1..n_market_tickers |-> None]
    /\ upd = [pc |-> "idle", market |-> FALSE, ii |-> 0, idle |-> None]
    /\ lastUpd = NoUpd
    /\ sent = NoneSent

\* _update_tickers(market) is called: choose the lists, enter the loop
StartPass ==
    /\ scenario = "Scraper._update_tickers" /\ upd.pc = "idle"
    /\ \E market \in BOOLEAN :
          LET n == IF market THEN n_market_tickers ELSE n_daily_tickers
          IN  upd' = [pc |-> IF n = 0 THEN "idle" ELSE "loop",
                      market |-> market, ii |-> 0, idle |-> upd.idle]
    /\ lastUpd' = NoUpd
    /\ sock' = <<>>
    /\ UNCHANGED <<scenario, mainVars, schedVars, aggVars,
                   n_market_tickers, n_daily_tickers, market_tickers,
                   market_prev_update, daily_tickers, daily_prev_update,
                   sent>>

\* one iteration of  for ii in range(n)
UpdateTicker ==
    /\ scenario = "Scraper._update_tickers" /\ upd.pc = "loop"
    /\ LET market == upd.market
           ii == upd.ii
           n == IF market THEN n_market_tickers ELSE n_daily_tickers
           prev_updates == IF market THEN market_prev_update
                           ELSE daily_prev_update
           tickers_ii == IF market THEN market_tickers ELSE daily_tickers
           after(idle) == [pc |-> IF ii + 1 = n THEN "idle" ELSE "loop",
                           market |-> market, ii |-> ii + 1, idle |-> idle]
       IN  IF ii + 1 > Len(prev_updates)
           THEN \* prev_updates[ii] raises IndexError, caught and logged
                /\ lastUpd' = [market |-> market, ii |-> ii, prev |-> None,
                               data |-> Raised, outcome |-> "noslot",
                               gap |-> None]
                /\ sock' = <<>>
                /\ upd' = after(upd.idle)
                /\ sent' = sent
                /\ UNCHANGED <<market_tickers, market_prev_update,
                               daily_tickers, daily_prev_update>>
           ELSE \E data \in HistoryResults :
                LET prev_update == prev_updates[ii + 1]
                    r == UpdateOne(TickerStr(market, ii), prev_update, data)
                    \* the sleep after yf.Ticker() when the handle is new
                    gap == IF tickers_ii[ii + 1] THEN upd.idle
                           ELSE Slept(upd.idle)
                IN  /\ lastUpd' = [market |-> market, ii |-> ii,
                                   prev |-> prev_update, data |-> data,
                                   outcome |-> r.outcome, gap |-> gap]
                    /\ sock' = r.msgs
                    /\ sent' = Sending(r.msgs)
                    \* the sleep after history() is skipped when it raises
                    /\ upd' = after(IF data.raised THEN 0 ELSE Slept(0))
                    /\ IF market
                       THEN /\ market_tickers' =
                                  [market_tickers EXCEPT ![ii + 1] = TRUE]
                            /\ market_prev_update' =
                                  [market_prev_update EXCEPT ![ii + 1] = r.prev]
                            /\ UNCHANGED <<daily_tickers, daily_prev_update>>
                       ELSE /\ daily_tickers' =
                                  [daily_tickers EXCEPT ![ii + 1] = TRUE]
                            /\ daily_prev_update' =
                                  [daily_prev_update EXCEPT ![ii + 1] = r.prev]
                            /\ UNCHANGED <<market_tickers, market_prev_update>>
    /\ UNCHANGED <<scenario, mainVars, schedVars, aggVars,
                   n_market_tickers, n_daily_tickers>>

(***************************************************************************)
(* Daily_Aggregator._update_ticker and _loop_through_tickers               *)
(*                                                                         *)
(* A (year, month, day) row is represented by the number of its day, and   *)
(* the five-column price row by one number.  Rows of zeros are the arrays  *)
(* as np.zeros allocates them.                                             *)
(***************************************************************************)
PriceOf(date) == 2 * date + 1

Record(date) == [date |-> date, price |-> PriceOf(date)]

\* history(period="60d"): raise, or n consecutive days ending at BootEnd
BootResults ==
    {Raised} \cup
    { Returned([k \in 1..n |-> Record(BootEnd - n + k)]) : n \in 0..MaxBootLen }

\* history(period="1d"): raise, no record, or the record of one day
TodayResults ==
    {Raised, Returned(<<>>)} \cup
    { Returned(<<Record(d)>>) : d \in (BootEnd - 1)..(BootEnd + 2) }

\* (variant: the slice taken from the front, a[:ROLLING_BUF_DAYS])
LastRowsFromFront(a) ==
    SubSeq(a, 1, IF Len(a) < ROLLING_BUF_DAYS THEN Len(a) ELSE ROLLING_BUF_DAYS)

\* a[-ROLLING_BUF_DAYS:]
LastRows(a) ==
    SubSeq(a, Max(1, Len(a) - ROLLING_BUF_DAYS + 1), Len(a))

\* numpy assignment of rows to a slice of ROLLING_BUF_DAYS rows: equal
\* lengths are copied, one row is broadcast, anything else is a ValueError
Assignable(rows) == Len(rows) = ROLLING_BUF_DAYS \/ Len(rows) = 1

AssignRows(rows) ==
    IF Len(rows) = ROLLING_BUF_DAYS THEN rows
    ELSE [k \in 1..ROLLING_BUF_DAYS |-> rows[1]]

\* (variant: the buffer is not rolled before its last row is written)
RollNot(a) == a

\* np.roll(a, -1, 0)
Roll(a) == Tail(a) \o <<Head(a)>>

\* (variant: the row written at index 0)
SetFirst(a, row) == [a EXCEPT ![1] = row]

\* a[-1] = row
SetLast(a, row) == [a EXCEPT ![Len(a)] = row]

\* (variant: the assignment without the index, a[:] = rows)
StoreAll(a, idx, rows) == [x \in 1..Len(a) |-> rows]

\* a[idx] = rows: the entry of one ticker in a parallel array
StoreAt(a, idx, rows) == [a EXCEPT ![idx] = rows]

Column(data, field) == [k \in 1..Len(data) |-> data[k][field]]

\* Daily_Aggregator._publish: one message carrying both arrays
PublishArrays(ticker_str, p, d) ==
    << [ticker |-> ticker_str, prices |-> p, dates |-> d] >>

\* the sizes of the ticker list a Daily_Aggregator is built with
AggTickerCounts == {0, 1, 2}

ZeroRows == [k \in 1..ROLLING_BUF_DAYS |-> 0]

NoWake == [n |-> 0, time |-> 0, looped |-> FALSE]

NoAgg == [idx |-> 0, first |-> FALSE, data |-> Raised, outcome |-> "none",
          prices |-> <<>>, dates |-> <<>>, gap |-> None]

\* no ticker arrays in this behaviour
NoArrays ==
    /\ num_tickers = 0
    /\ tickers = <<>> /\ prices = <<>> /\ dates = <<>>

AggIdle ==
    /\ NoArrays
    /\ agg = [pc |-> "off", ii |-> 0, loops |-> 0, idle |-> None]
    /\ lastAgg = NoAgg
    /\ host_offset = 0
    /\ wake = NoWake

\* Daily_Aggregator.__init__ up to its call of _loop_through_tickers
AggInit ==
    /\ num_tickers \in AggTickerCounts
    /\ tickers = [x \in 1..num_tickers |-> FALSE]
    /\ prices = [x \in 1..num_tickers |-> ZeroRows]
    /\ dates = [x \in 1..num_tickers |-> ZeroRows]
    /\ agg = [pc |-> IF num_tickers = 0 THEN "idle" ELSE "loop",
              ii |-> 0, loops |-> 0, idle |-> None]
    /\ lastAgg = NoAgg
    /\ host_offset = 0
    /\ wake = NoWake

\* _update_ticker(idx) followed by the sleep of _loop_through_tickers; an
\* exception leaves _loop_through_tickers and ends the caller
UpdateTickerDaily ==
    /\ scenario = "Daily_Aggregator" /\ agg.pc = "loop"
    /\ LET idx == agg.ii + 1
           first == ~tickers[idx]
           after == [agg EXCEPT !.pc = IF idx = num_tickers THEN "idle"
                                       ELSE "loop",
                                !.ii = idx,
                                !.idle = Slept(0)]
           crashed == [agg EXCEPT !.pc = "crashed", !.idle = 0]
           log(data, outcome) ==
               [idx |-> idx, first |-> first, data |-> data,
                outcome |-> outcome, prices |-> prices[idx],
                dates |-> dates[idx], gap |-> agg.idle]
       IN  /\ tickers' = StoreAt(tickers, idx, TRUE)
           /\ IF first
              THEN \E data \in BootResults :
                   LET rows == LastRows(data.rows)
                       p == AssignRows(Column(rows, "price"))
                       d == AssignRows(Column(rows, "date"))
                   IN  IF data.raised \/ ~Assignable(rows)
                       THEN /\ agg' = crashed
                            /\ lastAgg' = log(data, "raised")
                            /\ sock' = <<>>
                            /\ UNCHANGED <<prices, dates>>
                       ELSE /\ agg' = after
                            /\ lastAgg' = log(data, "published")
                            /\ prices' = StoreAt(prices, idx, p)
                            /\ dates' = StoreAt(dates, idx, d)
                            /\ sock' = PublishArrays(idx, p, d)
              ELSE \E data \in TodayResults :
                   IF data.raised \/ data.rows = <<>>
                   THEN \* history() raised, or index [0] of an empty result
                        /\ agg' = crashed
                        /\ lastAgg' = log(data, "raised")
                        /\ sock' = <<>>
                        /\ UNCHANGED <<prices, dates>>
                   ELSE LET cur_date == data.rows[1].date
                        IN  IF cur_date # LastOf(dates[idx])
                            THEN LET p == SetLast(Roll(prices[idx]),
                                                  data.rows[1].price)
                                     d == SetLast(Roll(dates[idx]), cur_date)
                                 IN  /\ agg' = after
                                     /\ lastAgg' = log(data, "published")
                                     /\ prices' = StoreAt(prices, idx, p)
                                     /\ dates' = StoreAt(dates, idx, d)
                                     /\ sock' = PublishArrays(idx, p, d)
                            ELSE /\ agg' = after
                                 /\ lastAgg' = log(data, "same")
                                 /\ sock' = <<>>
                                 /\ UNCHANGED <<prices, dates>>
    /\ UNCHANGED <<scenario, mainVars, schedVars, scraperVars, num_tickers,
                   host_offset, wake>>

\* Daily_Aggregator.run: a weekday wake calls _loop_through_tickers
LoopThroughTickers ==
    /\ scenario = "Daily_Aggregator" /\ agg.pc = "idle"
    /\ agg.loops < MaxAggLoops
    /\ agg' = [pc |-> IF num_tickers = 0 THEN "idle" ELSE "loop",
               ii |-> 0, loops |-> agg.loops + 1, idle |-> agg.idle]
    /\ lastAgg' = NoAgg
    /\ sock' = <<>>
    /\ UNCHANGED <<scenario, mainVars, schedVars, scraperVars, num_tickers,
                   tickers, prices, dates, host_offset, wake>>

(***************************************************************************)
(* Daily_Aggregator.run                                                    *)
(*                                                                         *)
(* The wake loop alone: the clock, the sleep until the next close and the  *)
(* weekday test; the loop over the tickers is represented by its duration. *)
(***************************************************************************)
\* where the host clock may stand relative to market time
HostOffsets == { 0, 13 * SecsPerHour }

\* how long one loop over the tickers may take
LoopDurations == { 10, 9 * SecsPerHour }

\* run(): the wake time computed from the clock as read
NextWake(t) == DayStart(t) + MARKET_CLOSE_TIME + SecsPerDay + WakeGraceSecs

\* run(): datetime.datetime.today().weekday() < 5
HostWeekday(t, offset) == Weekday(t + offset) < FirstWeekendDay

AggRunInit ==
    /\ NoArrays
    /\ agg = [pc |-> "top", ii |-> 0, loops |-> 0, idle |-> None]
    /\ lastAgg = NoAgg
    /\ host_offset \in HostOffsets
    /\ wake = NoWake

\* run(): read the clock, compute the next close, sleep until then
SleepUntilClose ==
    /\ scenario = "Daily_Aggregator.run" /\ agg.pc = "top"
    /\ wake.n < MaxCycles
    /\ cur_time' = now
    /\ now' = NextWake(now)
    /\ agg' = [agg EXCEPT !.pc = "woke"]
    /\ UNCHANGED <<scenario, mainVars, scraperVars, sock, timeframe,
                   next_time, pc,
                   have_done_mkt_close_pull, drift, pulls, first_time, slept,
                   lastPull, sincePoll, num_tickers, tickers, prices, dates,
                   lastAgg, host_offset, wake>>

\* run(): the weekday test and, on a weekday, the loop over the tickers
WakeAtClose ==
    /\ scenario = "Daily_Aggregator.run" /\ agg.pc = "woke"
    /\ LET looped == HostWeekday(now, host_offset)
       IN  /\ wake' = [n |-> wake.n + 1, time |-> now, looped |-> looped]
           /\ IF looped
              THEN \E dur \in LoopDurations : now' = now + dur
              ELSE now' = now
    /\ agg' = [agg EXCEPT !.pc = "top"]
    /\ UNCHANGED <<scenario, mainVars, scraperVars, sock, timeframe,
                   cur_time,
                   next_time, pc, have_done_mkt_close_pull, drift, pulls,
                   first_time, slept, lastPull, sincePoll, num_tickers,
                   tickers, prices, dates, lastAgg, host_offset>>

(***************************************************************************)
(* Scraper.__init__ and the main block of Scraper.py                       *)
(*                                                                         *)
(* The ticker lists are given as lists; their lengths are what matters.    *)
(***************************************************************************)
\* timeframe arguments a Scraper may be built with
TimeframeArgs == valid_options \cup {"3m", "1h"}

NoScraper == [timeframe |-> "1d", n_market_tickers |-> 0,
              n_daily_tickers |-> 0, bound |-> FALSE, pc |-> "off"]

\* (variant: the test of the timeframe left out)
ValidTimeframeAny(tf) == TRUE

\* not (timeframe not in valid_options)
ValidTimeframe(tf) == tf \in valid_options

\* scraper = Scraper(args.timeframe, args.market, args.daily)
ScraperNew ==
    \E tf \in TimeframeArgs, nm \in MarketTickerCounts,
       nd \in DailyTickerCounts :
        scraper = [timeframe |-> tf, n_market_tickers |-> nm,
                   n_daily_tickers |-> nd, bound |-> FALSE, pc |-> "new"]

\* Scraper.__init__: the lists are loaded, the timeframe is tested, then the
\* publisher socket is created and bound; a ValueError ends the process
Construct ==
    /\ scenario = "Scraper.__init__" /\ scraper.pc = "new"
    /\ IF ValidTimeframe(scraper.timeframe)
       THEN scraper' = [scraper EXCEPT !.bound = TRUE, !.pc = "built"]
       ELSE scraper' = [scraper EXCEPT !.pc = "raised"]
    /\ UNCHANGED <<scenario, analyzer, host, schedVars, scraperVars, aggVars,
                   sock>>

\* scraper.run(): the start time is computed and the main loop entered
CallRun ==
    /\ scenario = "Scraper.__init__" /\ scraper.pc = "built"
    /\ scraper' = [scraper EXCEPT !.pc = "running"]
    /\ UNCHANGED <<scenario, analyzer, host, schedVars, scraperVars, aggVars,
                   sock>>

(***************************************************************************)
(* Abstract_Analyzer: the subscriptions and the messages received          *)
(*                                                                         *)
(* A string is a sequence of characters.  A SUB socket hands over a        *)
(* message when one of its subscriptions is a prefix of the message; the   *)
(* empty subscription is a prefix of every message.                        *)
(***************************************************************************)
\* the ticker symbols in use
Symbols == { <<"A">>, <<"A", "B">>, <<"B">> }

\* the strings a ticker list can hold besides them: get_ticker_list() keeps
\* the empty string of a blank line, and a line with a blank inside it
TickerStrs == Symbols \cup { <<>>, <<"A", " ", "B">> }

\* the flattened cells of the arrays handed to _publish(), as byte values
PriceArrays == { <<>>, <<7>>, <<1, 255>>, <<250, 0, 61>> }

DateArrays == { <<>>, <<20>>, <<4, 31, 255>> }

\* pickle.dumps(array): a byte string the array can be read back from
\* (the number of cells, then the cells)
Dumps(cells) == <<Len(cells)>> \o cells

\* pickle.loads(bytes)
Loads(bytes) == SubSeq(bytes, 2, bytes[1] + 1)

\* the base64 alphabet, in the order of its values 0..63
B64Chars ==
    << "A", "B", "C", "D", "E", "F", "G", "H", "I", "J", "K", "L", "M",
       "N", "O", "P", "Q", "R", "S", "T", "U", "V", "W", "X", "Y", "Z",
       "a", "b", "c", "d", "e", "f", "g", "h", "i", "j", "k", "l", "m",
       "n", "o", "p", "q", "r", "s", "t", "u", "v", "w", "x", "y", "z",
       "0", "1", "2", "3", "4", "5", "6", "7", "8", "9", "+", "/" >>

B64Pad == "="

\* the characters of one group of one, two or three bytes
B64Quad(bytes) ==
    LET b(i) == IF i <= Len(bytes) THEN bytes[i] ELSE 0
        n == b(1) * 65536 + b(2) * 256 + b(3)
        c(k) == B64Chars[((n \div (64 ^ (4 - k))) % 64) + 1]
    IN  CASE Len(bytes) = 1 -> << c(1), c(2), B64Pad, B64Pad >>
          [] Len(bytes) = 2 -> << c(1), c(2), c(3), B64Pad >>
          [] OTHER          -> << c(1), c(2), c(3), c(4) >>

\* base64.b64encode(bytes).decode('ascii')
RECURSIVE B64Encode(_)
B64Encode(bytes) ==
    IF Len(bytes) = 0 THEN <<>>
    ELSE IF Len(bytes) <= 3 THEN B64Quad(bytes)
    ELSE B64Quad(SubSeq(bytes, 1, 3))
             \o B64Encode(SubSeq(bytes, 4, Len(bytes)))

\* the bytes of one group of four characters
B64Triple(chars) ==
    LET v(k) == IF chars[k] = B64Pad THEN 0
                ELSE (CHOOSE i \in 1..64 : B64Chars[i] = chars[k]) - 1
        n == v(1) * 262144 + v(2) * 4096 + v(3) * 64 + v(4)
        pad == Cardinality({ k \in 3..4 : chars[k] = B64Pad })
    IN  SubSeq(<< n \div 65536, (n \div 256) % 256, n % 256 >>, 1, 3 - pad)

\* base64.b64decode(chars.encode("ascii"))
RECURSIVE B64Decode(_)
B64Decode(chars) ==
    IF Len(chars) = 0 THEN <<>>
    ELSE B64Triple(SubSeq(chars, 1, 4))
             \o B64Decode(SubSeq(chars, 5, Len(chars)))

\* the two encoded arrays of a message, "prices_enc dates_enc"
Payload(cells1, cells2) ==
    B64Encode(Dumps(cells1)) \o <<" ">> \o B64Encode(Dumps(cells2))

\* "%s %s %s" % (ticker_str, prices_enc, dates_enc)
Message(ticker_str, cells1, cells2) ==
    ticker_str \o <<" ">> \o Payload(cells1, cells2)

\* the characters str.split() splits at
Whitespace == { " ", "\t", "\n", "\r" }

\* msg.split(): the maximal runs of characters that are not whitespace
RECURSIVE Split(_)
Split(msg) ==
    IF Len(msg) = 0 THEN <<>>
    ELSE IF Head(msg) \in Whitespace THEN Split(Tail(msg))
    ELSE LET n == CHOOSE k \in 1..Len(msg) :
                      /\ \A j \in 1..k : msg[j] \notin Whitespace
                      /\ k = Len(msg) \/ msg[k + 1] \in Whitespace
         IN  <<SubSeq(msg, 1, n)>> \o Split(SubSeq(msg, n + 1, Len(msg)))

\* msg.split()[0]
FirstField(msg) == Head(Split(msg))

\* the body of the loop of run() after recv_string(): the unpacking of
\* msg.split() into three names raises ValueError on any other number of
\* fields; otherwise the arguments analyze() is called with
NotAnalyzed == [raised |-> FALSE, called |-> FALSE, ticker |-> <<>>,
                prices |-> <<>>, dates |-> <<>>]

Analyze(msg) ==
    LET fields == Split(msg)
    IN  IF Len(fields) # 3
        THEN [NotAnalyzed EXCEPT !.raised = TRUE]
        ELSE [raised |-> FALSE, called |-> TRUE, ticker |-> fields[1],
              prices |-> Loads(B64Decode(fields[2])),
              dates |-> Loads(B64Decode(fields[3]))]

IsPrefix(p, msg) == Len(p) <= Len(msg) /\ SubSeq(msg, 1, Len(p)) = p

\* the setsockopt_string(zmq.SUBSCRIBE, ...) calls of __init__
Subscriptions(ticker_strs) ==
    IF Cardinality(ticker_strs) = 0 THEN { <<>> } ELSE ticker_strs

\* is the message handed to recv_string()
Delivered(ticker_strs, msg) ==
    \E p \in Subscriptions(ticker_strs) : IsPrefix(p, msg)

NoAnalyzer == [ticker_strs |-> {}, sent |-> <<>>, got |-> <<>>,
               prices |-> <<>>, dates |-> <<>>, msg |-> <<>>,
               run |-> NotAnalyzed]

\* analyzer = Abstract_Analyzer(ticker_list)
AnalyzerNew ==
    \E S \in SUBSET Symbols : analyzer = [NoAnalyzer EXCEPT !.ticker_strs = S]

\* Daily_Aggregator._publish() sends the message of one ticker; run() of
\* the analyzer receives it, splits and decodes it and calls analyze(), or
\* the socket drops it
AnalyzerRecv ==
    /\ scenario = "Abstract_Analyzer"
    /\ \E ticker_str \in TickerStrs, p \in PriceArrays, d \in DateArrays :
          LET msg == Message(ticker_str, p, d)
              run == IF Delivered(analyzer.ticker_strs, msg)
                     THEN Analyze(msg) ELSE NotAnalyzed
          IN  analyzer' =
                  [analyzer EXCEPT
                      !.sent = ticker_str, !.prices = p, !.dates = d,
                      !.msg = msg, !.run = run,
                      !.got = IF run.called THEN run.ticker ELSE <<>>]
    /\ UNCHANGED <<scenario, scraper, host, schedVars, scraperVars, aggVars,
                   sock>>

(***************************************************************************)
(* Two services started as separate processes on one host                  *)
(*                                                                         *)
(* What the processes share is the host's table of bound TCP ports: a bind *)
(* to a port that is bound raises zmq.error.ZMQError (address in use).     *)
(***************************************************************************)
PUB_PORT == 21000

Services == {"Scraper", "Daily_Aggregator"}

\* the port the publisher socket of a service is bound to
PortOf(service) == PUB_PORT

NoHost == [ports |-> {}, procs |-> <<>>]

\* two processes are about to be started
HostNew ==
    \E s1 \in Services, s2 \in Services :
        host = [ports |-> {},
                procs |-> << [service |-> s1, pc |-> "new"],
                             [service |-> s2, pc |-> "new"] >>]

\* __init__ of the service of process i: self.sock.bind("tcp://*:%d" % PUB_PORT)
Bind(i) ==
    /\ scenario = "two processes"
    /\ host.procs[i].pc = "new"
    /\ LET port == PortOf(host.procs[i].service)
       IN  IF port \in host.ports
           THEN host' = [host EXCEPT !.procs[i].pc = "raised"]
           ELSE host' = [host EXCEPT !.procs[i].pc = "built",
                                     !.ports = host.ports \cup {port}]
    /\ UNCHANGED <<scenario, scraper, analyzer, schedVars, scraperVars,
                   aggVars, sock>>

\* the process whose service is built enters run()
RunProcess(i) ==
    /\ scenario = "two processes"
    /\ host.procs[i].pc = "built"
    /\ host' = [host EXCEPT !.procs[i].pc = "running"]
    /\ UNCHANGED <<scenario, scraper, analyzer, schedVars, scraperVars,
                   aggVars, sock>>

StartProcesses == \E i \in 1..2 : Bind(i) \/ RunProcess(i)

(***************************************************************************)
(* Specification                                                           *)
(***************************************************************************)
Scenarios == {"Scraper.run", "Scraper._update_tickers", "Daily_Aggregator",
              "Daily_Aggregator.run", "Scraper.__init__", "Abstract_Analyzer",
              "two processes"}

Init ==
    /\ scenario \in Scenarios
    /\ sock = <<>>
    /\ IF scenario = "Scraper.run" THEN SchedInit
       ELSE IF scenario = "Daily_Aggregator.run"
       THEN SchedIdle /\ now \in StartTimes
       ELSE SchedIdle /\ now = 0
    /\ IF scenario = "Scraper._update_tickers" THEN ScraperInit ELSE ScraperIdle
    /\ IF scenario = "Daily_Aggregator" THEN AggInit
       ELSE IF scenario = "Daily_Aggregator.run" THEN AggRunInit
       ELSE AggIdle
    /\ IF scenario = "Scraper.__init__" THEN ScraperNew
       ELSE scraper = NoScraper
    /\ IF scenario = "Abstract_Analyzer" THEN AnalyzerNew
       ELSE analyzer = NoAnalyzer
    /\ IF scenario = "two processes" THEN HostNew
       ELSE host = NoHost

Next ==
    \/ RunStart
    \/ CatchUp
    \/ EnterMainLoop
    \/ WaitLoop
    \/ PullData
    \/ Advance
    \/ StartPass
    \/ UpdateTicker
    \/ UpdateTickerDaily
    \/ LoopThroughTickers
    \/ SleepUntilClose
    \/ WakeAtClose
    \/ Construct
    \/ CallRun
    \/ AnalyzerRecv
    \/ StartProcesses

Spec == Init /\ [][Next]_vars

\* run() is a sequential program: a statement that can run does run
LiveSpec ==
    /\ Spec
    /\ WF_vars(RunStart) /\ WF_vars(CatchUp) /\ WF_vars(EnterMainLoop)

(***************************************************************************)
(* Properties of the scheduler                                             *)
(***************************************************************************)
InMainLoop == pc \in {"wait", "pull", "advance"}

\* C1: for every cadence and start time the startup catch-up loop of
\* Scraper.run terminates, and when it exits the computed next trigger is
\* strictly later than the current time that was last read.
C1_CatchUpTerminates ==
    /\ (pc = "catchup") ~> (pc = "wait")
    /\ [](pc = "wait" /\ pulls = 0 => next_time > cur_time)

\* the catch-up loop has iterated, the clock has moved meanwhile, and the
\* loop has been left
C1_Witness ==
    /\ pc = "wait" /\ pulls = 0 /\ drift > 0
    /\ next_time >= StartTrigger(timeframe, cur_time - drift)
                        + 2 * Increment(timeframe)

\* C2: after every polling cycle the next trigger is the previous trigger
\* plus exactly one cadence increment, whatever the wall clock says, so every
\* trigger is the first trigger plus a whole number of increments.
C2_NoCumulativeDrift ==
    [][ /\ (pc = "advance" =>
              next_time' = next_time + Increment(timeframe))
        /\ (InMainLoop' =>
              /\ (next_time' - first_time') % Increment(timeframe') = 0
              /\ next_time' >= first_time') ]_vars

\* two cycles done, the last one ended after the trigger that followed it
C2_Witness ==
    /\ pc = "wait" /\ pulls >= 2
    /\ cur_time > next_time
    /\ next_time = first_time + pulls * Increment(timeframe)

\* C3 as stated: a trigger is never left in the past, and no cycle is fired
\* without a wait before it, also after a cycle that overran its interval.
C3_NeverBackToBack ==
    /\ (pc = "wait" => cur_time < next_time)
    /\ (pc = "pull" => slept)

\* C3 as amended: at startup a start time that is in the past is advanced by
\* whole increments until it is in the future, no cycle is run for a skipped
\* trigger, and the first cycle is preceded by a wait; a cycle that is fired
\* without a wait is one that follows an overrun cycle.
C3_StartupCatchUp ==
    LET start == StartTrigger(timeframe, cur_time - drift)
        inc == Increment(timeframe)
    IN  /\ (pc = "wait" /\ pulls = 0 =>
              /\ cur_time < next_time
              /\ next_time >= start
              /\ (next_time - start) % inc = 0
              /\ (next_time > start => next_time - inc <= cur_time))
        /\ (pc = "pull" /\ pulls = 0 => slept /\ cur_time >= next_time)
        /\ (pc = "pull" /\ ~slept => pulls >= 1 /\ cur_time >= next_time)

\* a late start: triggers were skipped and the first cycle is about to run
C3_Witness ==
    /\ pc = "pull" /\ pulls = 0 /\ slept
    /\ next_time > StartTrigger(timeframe, first_time)

\* C4: _pull_data never runs the pass over the market tickers at a trigger
\* that falls on a Saturday or a Sunday.
C4_NoMarketPassOnWeekend ==
    pulls >= 1 => ~(lastPull.market /\ Weekday(lastPull.time) >= FirstWeekendDay)

\* C5: once the market has been polled in hours, the market tickers get
\* exactly one more pass, at the first poll after the close, and none at a
\* later poll until the next in-hours poll; the flag is set by the post-close
\* pass and cleared only by an in-hours pass.
C5_OnePostClosePass ==
    [][ /\ (sincePoll'.seen /\ sincePoll'.polls >= 1 =>
              sincePoll'.passes = 1)
        /\ (sincePoll'.polls >= 1 <=> have_done_mkt_close_pull')
        /\ (have_done_mkt_close_pull' /\ ~have_done_mkt_close_pull =>
              lastPull'.market /\ ~lastPull'.open)
        /\ (~have_done_mkt_close_pull' /\ have_done_mkt_close_pull =>
              lastPull'.market /\ lastPull'.open) ]_vars

\* an in-hours poll, the post-close pass, and a later poll without a pass
C5_Witness ==
    /\ sincePoll.seen /\ sincePoll.polls >= 2 /\ sincePoll.passes = 1
    /\ ~lastPull.market

\* C6: at every trigger, whatever the weekday, the time of day and the flag,
\* the pass over the always-on (daily) tickers is run.
C6_DailyPassEveryTrigger ==
    pulls >= 1 => lastPull.daily

\* a weekend trigger with the flag set: no market pass, still a daily pass
C6_Witness ==
    /\ pulls >= 2 /\ lastPull.daily /\ ~lastPull.market
    /\ Weekday(lastPull.time) >= FirstWeekendDay
    /\ have_done_mkt_close_pull

\* C7 as stated: under the daily cadence every wake on a trading weekday
\* updates all instruments, the market tickers included, and a wake on a
\* non-trading day updates no market ticker (the Daily_Aggregator taken on a
\* host whose clock is in market time).
C7_DailyCadenceEveryWeekday ==
    /\ (scenario = "Scraper.run" /\ timeframe = "1d" /\ pulls >= 1 =>
          IF Weekday(lastPull.time) < FirstWeekendDay
          THEN lastPull.market /\ lastPull.daily
          ELSE ~lastPull.market)
    /\ (scenario = "Daily_Aggregator.run" /\ wake.n >= 1 /\ host_offset = 0 =>
          (wake.looped <=> Weekday(wake.time) < FirstWeekendDay))

(***************************************************************************)
(* Properties of the update of one symbol                                  *)
(***************************************************************************)
PrevUpdates(market) ==
    IF market THEN market_prev_update ELSE daily_prev_update

\* C8 as stated: the first update of a symbol of the daily variant always
\* leaves exactly W records in the buffer and in the published message and
\* marks the symbol initialized, whatever the bootstrap fetch returned.
C8_BootstrapAlwaysFull ==
    lastAgg.first /\ lastAgg.outcome # "none" =>
        /\ tickers[lastAgg.idx]
        /\ agg.pc # "crashed"
        /\ Len(dates[lastAgg.idx]) = ROLLING_BUF_DAYS
        /\ Len(prices[lastAgg.idx]) = ROLLING_BUF_DAYS
        /\ Len(sock) = 1
        /\ sock[1].dates = dates[lastAgg.idx]
        /\ sock[1].prices = prices[lastAgg.idx]

\* C9: a steady-state update whose fetch holds no timestamp greater than
\* last_published (daily variant: whose fetched date is the newest date of
\* the buffer) publishes nothing and leaves last_published and the buffer as
\* they were, so that the same fetch again finds the same state.
C9_NoNewDataIsNoOp ==
    /\ (/\ scenario = "Scraper._update_tickers"
        /\ lastUpd.outcome \notin {"none", "noslot"}
        /\ lastUpd.prev # None
        /\ ~lastUpd.data.raised
        /\ \A k \in 1..Len(lastUpd.data.rows) :
               lastUpd.data.rows[k] <= lastUpd.prev)
          => /\ sock = <<>>
             /\ PrevUpdates(lastUpd.market)[lastUpd.ii + 1] = lastUpd.prev
    /\ (/\ scenario = "Daily_Aggregator"
        /\ lastAgg.outcome # "none" /\ ~lastAgg.first
        /\ ~lastAgg.data.raised /\ lastAgg.data.rows # <<>>
        /\ lastAgg.data.rows[1].date = LastOf(lastAgg.dates))
          => /\ sock = <<>>
             /\ agg.pc # "crashed"
             /\ dates[lastAgg.idx] = lastAgg.dates
             /\ prices[lastAgg.idx] = lastAgg.prices

\* a non-empty fetch of a steady-state symbol with nothing newer in it
C9_Witness ==
    /\ lastUpd.outcome = "nonew"
    /\ Len(lastUpd.data.rows) >= 2
    /\ LastOf(lastUpd.data.rows) = lastUpd.prev

\* C10: a steady-state update of the Scraper publishes exactly the fetched
\* records with a timestamp strictly greater than last_published, in
\* chronological order, and last_published becomes the newest of them.
C10_PublishesExactlyTheNewer ==
    (/\ scenario = "Scraper._update_tickers"
     /\ lastUpd.outcome \in {"empty", "nonew", "new"}
     /\ lastUpd.prev # None)
      => LET Newer(t) == t > lastUpd.prev
             newer == SelectSeq(lastUpd.data.rows, Newer)
             ticker_str == TickerStr(lastUpd.market, lastUpd.ii)
         IN  /\ Len(sock) = Len(newer)
             /\ \A k \in 1..Len(sock) :
                    sock[k] = [ticker |-> ticker_str, date |-> newer[k]]
             /\ \A j, k \in 1..Len(sock) :
                    j < k => sock[j].date < sock[k].date
             /\ (lastUpd.outcome = "new" <=> newer # <<>>)
             /\ newer # <<>> =>
                    PrevUpdates(lastUpd.market)[lastUpd.ii + 1] = LastOf(newer)

\* a fetch with older and newer records: only the newer ones are sent
C10_Witness ==
    /\ lastUpd.outcome = "new"
    /\ Len(sock) >= 2
    /\ Len(lastUpd.data.rows) > Len(sock)

(***************************************************************************)
(* Properties of one cycle over the symbols                                *)
(***************************************************************************)
\* C11 as stated: a fetch that raises for one symbol is caught and does not
\* stop the cycle: the loop goes on to the next symbol, in the update pass
\* of the Scraper and in the loop of the Daily_Aggregator alike.
C11_FetchErrorIsolated ==
    /\ (scenario = "Scraper._update_tickers" /\ lastUpd.outcome = "error")
          => /\ upd.market = lastUpd.market
             /\ upd.ii = lastUpd.ii + 1
             /\ upd.pc \in {"loop", "idle"}
    /\ (/\ scenario = "Daily_Aggregator"
        /\ lastAgg.outcome # "none" /\ lastAgg.data.raised)
          => /\ agg.pc \in {"loop", "idle"}
             /\ agg.ii = lastAgg.idx

\* C12 as stated: an incremental fetch of an initialized symbol that returns
\* no records is a no-op: nothing is published, last_published and the
\* buffer stay as they were, no exception escapes and the cycle goes on, in
\* the Scraper and in the Daily_Aggregator alike.
C12_EmptyFetchIsNoOp ==
    /\ (/\ scenario = "Scraper._update_tickers"
        /\ lastUpd.outcome = "empty" /\ lastUpd.prev # None)
          => /\ sock = <<>>
             /\ PrevUpdates(lastUpd.market)[lastUpd.ii + 1] = lastUpd.prev
             /\ upd.ii = lastUpd.ii + 1
             /\ upd.pc \in {"loop", "idle"}
    /\ (/\ scenario = "Daily_Aggregator"
        /\ lastAgg.outcome # "none" /\ ~lastAgg.first
        /\ ~lastAgg.data.raised /\ lastAgg.data.rows = <<>>)
          => /\ sock = <<>>
             /\ dates[lastAgg.idx] = lastAgg.dates
             /\ prices[lastAgg.idx] = lastAgg.prices
             /\ agg.pc \in {"loop", "idle"}
             /\ agg.ii = lastAgg.idx

\* C13 as stated: between the end of a provider fetch and the start of the
\* next fetch by the same instance the service has slept at least
\* YF_SEC_BETWEEN_REQS seconds, on every path: after a successful, an empty
\* and a failed fetch, with and without the initialization of a symbol, and
\* from one pass or loop to the next.
C13_MinDelayBetweenFetches ==
    /\ (/\ scenario = "Scraper._update_tickers"
        /\ lastUpd.outcome \notin {"none", "noslot"}
        /\ lastUpd.gap # None)
          => lastUpd.gap >= YF_SEC_BETWEEN_REQS
    /\ (/\ scenario = "Daily_Aggregator"
        /\ lastAgg.outcome # "none"
        /\ lastAgg.gap # None)
          => lastAgg.gap >= YF_SEC_BETWEEN_REQS

(***************************************************************************)
(* Properties of the rolling buffer of the Daily_Aggregator                *)
(***************************************************************************)
NonDecreasing(s) == \A j, k \in 1..Len(s) : j < k => s[j] <= s[k]

\* C14 as stated: the buffer of every symbol of the Daily_Aggregator, after
\* the bootstrap and after any sequence of steady-state updates, whatever
\* dates the provider returns, holds exactly ROLLING_BUF_DAYS entries with
\* dates in non-decreasing order.
C14_BufferFullAndOrdered ==
    scenario = "Daily_Aggregator" =>
        \A i \in 1..num_tickers :
            /\ Len(dates[i]) = ROLLING_BUF_DAYS
            /\ Len(prices[i]) = ROLLING_BUF_DAYS
            /\ NonDecreasing(dates[i])

\* C15: a bootstrap fetch that returns n >= ROLLING_BUF_DAYS records stores
\* exactly the last ROLLING_BUF_DAYS of them, in the order fetched, as the
\* buffer of the symbol, prices and dates alike.
C15_BootstrapKeepsLastW ==
    (/\ scenario = "Daily_Aggregator"
     /\ lastAgg.outcome # "none" /\ lastAgg.first
     /\ ~lastAgg.data.raised
     /\ Len(lastAgg.data.rows) >= ROLLING_BUF_DAYS)
      => LET rows == lastAgg.data.rows
             skip == Len(rows) - ROLLING_BUF_DAYS
         IN  /\ lastAgg.outcome = "published"
             /\ dates[lastAgg.idx] =
                    [k \in 1..ROLLING_BUF_DAYS |-> rows[skip + k].date]
             /\ prices[lastAgg.idx] =
                    [k \in 1..ROLLING_BUF_DAYS |-> rows[skip + k].price]

\* a bootstrap fetch of more than ROLLING_BUF_DAYS records was stored
C15_Witness ==
    /\ lastAgg.first /\ lastAgg.outcome = "published"
    /\ Len(lastAgg.data.rows) > ROLLING_BUF_DAYS
    /\ dates[lastAgg.idx][1] = lastAgg.data.rows[1].date + 2

(***************************************************************************)
(* Properties of the publishers                                            *)
(***************************************************************************)
\* the records an update of the Scraper hands to _publish
Handed ==
    LET Newer(t) == t > lastUpd.prev
    IN  IF lastUpd.outcome = "first" THEN << LastOf(lastUpd.data.rows) >>
        ELSE IF lastUpd.outcome = "new"
        THEN SelectSeq(lastUpd.data.rows, Newer)
        ELSE <<>>

C18_ExactSymbolFilter ==
    (scenario = "Abstract_Analyzer" /\ analyzer.sent # <<>>) =>
        /\ (analyzer.ticker_strs # {} /\ analyzer.got # <<>>)
              => analyzer.got \in analyzer.ticker_strs
        /\ analyzer.ticker_strs = {} => analyzer.got = analyzer.sent

\* C19: a Scraper built with a timeframe that is not one of the eight valid
\* values fails in its constructor with an error: the publisher socket is
\* never bound, the object is never built and run() is never entered.
C19_InvalidTimeframeFailsAtStart ==
    (scenario = "Scraper.__init__" /\ scraper.timeframe \notin valid_options)
      => /\ ~scraper.bound
         /\ scraper.pc \in {"new", "raised"}

\* the constructor has raised for an invalid timeframe
C19_Witness ==
    /\ scraper.pc = "raised"
    /\ scraper.timeframe \notin valid_options
    /\ ~scraper.bound

\* C20 as stated: a service started with an empty symbol set fails at
\* startup: the Scraper is not built and its run() is not entered, the
\* Daily_Aggregator never runs its loop over the tickers from run().
C20_EmptySymbolSetIsFatal ==
    /\ (/\ scenario = "Scraper.__init__"
        /\ scraper.n_market_tickers = 0 /\ scraper.n_daily_tickers = 0)
          => scraper.pc \in {"new", "raised"}
    /\ (scenario = "Daily_Aggregator" /\ num_tickers = 0)
          => agg.loops = 0

(***************************************************************************)
(* Properties of the first trigger and of the main loop                    *)
(***************************************************************************)
\* C21: with an intraday timeframe of N minutes the first trigger of run()
\* is market open + N minutes + 30 s of the day of the start when the
\* process starts before that instant, and for every start time it is that
\* instant plus a whole number k >= 0 of N-minute steps.
C21_FirstTriggerFromOpen ==
    [][ (pc = "catchup" /\ pc' = "wait" /\ timeframe # "1d") =>
            LET start == now - drift
                step == MinToWait(timeframe) * SecsPerMinute
                base == DayStart(start) + MARKET_OPEN_TIME + step + GraceSecs
            IN  /\ start < base => first_time' = base
                /\ first_time' >= base
                /\ (first_time' - base) % step = 0
                /\ first_time' = next_time ]_vars

\* scenario C: "5m", started on Monday 09:20, first trigger at 09:35:30
C21_Witness ==
    /\ pc = "wait" /\ pulls = 0
    /\ timeframe = "5m"
    /\ cur_time = At(0, 9, 20, 0)
    /\ first_time = At(0, 9, 35, 30)
    /\ next_time = first_time

\* C22: in the main loop of run() a cycle that ends after the next trigger
\* only gives the lag warning: the next trigger is the previous one plus one
\* increment as after a cycle in time, nothing else of the scheduler
\* changes; and a cycle in which an exception was raised is followed by the
\* same step, so run() always goes on to wait for the next trigger.
C22_LateOrFailedCycleGoesOn ==
    [][ /\ pc = "pull" => /\ pc' = "advance"
                          /\ next_time' = next_time
        /\ pc = "advance" =>
              /\ pc' = "wait"
              /\ next_time' = next_time + Increment(timeframe)
              /\ cur_time' = now
              /\ UNCHANGED <<timeframe, now, have_done_mkt_close_pull, pulls,
                             lastPull>> ]_vars

\* after a cycle that raised and ended late, run() waits for the next trigger
C22_Witness ==
    /\ pc = "wait" /\ pulls >= 1
    /\ lastPull.raised
    /\ cur_time > next_time

(***************************************************************************)
(* Properties of the wake loop of the Daily_Aggregator                     *)
(***************************************************************************)
\* C23 as stated: every wake of Daily_Aggregator.run is at the market close
\* time of day plus 180 s, and each wake is exactly one day after the wake
\* before it, however long the loop over the tickers of that wake took
\* (taken on a host whose clock is in market time).
C23_WakesOneDayApart ==
    [][ (/\ scenario = "Daily_Aggregator.run" /\ host_offset = 0
         /\ wake'.n = wake.n + 1) =>
            /\ TimeOfDay(wake'.time) = MARKET_CLOSE_TIME + WakeGraceSecs
            /\ wake.n >= 1 => wake'.time = wake.time + SecsPerDay ]_vars

(***************************************************************************)
(* Properties of two services on one host                                  *)
(***************************************************************************)
\* C24 as stated: two service instances started as separate processes on
\* the same host both start: neither constructor raises, and they hold no
\* resource in common.
C24_BothInstancesStart ==
    scenario = "two processes" =>
        \A i \in 1..2 : host.procs[i].pc # "raised"

(***************************************************************************)
(* Properties of the passes of the Scraper over its symbols                *)
(***************************************************************************)
\* self.market_tickers or self.daily_tickers
Handles(market) == IF market THEN market_tickers ELSE daily_tickers

\* C25: a fetch of the Scraper that fails leaves last_published of the
\* symbol as it was, publishes nothing and is not repeated in the pass: the
\* loop goes on to the next index; every pass fetches every symbol that has
\* a slot again; and a symbol that was tried before without a publication
\* gets its first publication from the first fetch that returns records.
C25_FailedFetchTriedAgain ==
    [][ (scenario = "Scraper._update_tickers" /\ upd.pc = "loop"
         /\ upd.ii + 1 <= Len(PrevUpdates(upd.market))) =>
            LET market == upd.market
                slot == upd.ii + 1
                data == lastUpd'.data
            IN  /\ lastUpd'.ii = upd.ii /\ lastUpd'.market = market
                /\ lastUpd'.outcome # "noslot"
                /\ upd'.ii = upd.ii + 1
                /\ data.raised =>
                      /\ lastUpd'.outcome = "error"
                      /\ sock' = <<>>
                      /\ PrevUpdates(market)' = PrevUpdates(market)
                /\ (/\ Handles(market)[slot]
                    /\ PrevUpdates(market)[slot] = None
                    /\ ~data.raised /\ data.rows # <<>>) =>
                      /\ Len(sock') = 1
                      /\ sock'[1].ticker = TickerStr(market, upd.ii)
                      /\ PrevUpdates(market)'[slot] = sock'[1].date ]_vars

\* a symbol tried before without a publication is published for the first
\* time, by the fetch that follows a failed fetch
C25_Witness ==
    /\ lastUpd.outcome = "first"
    /\ lastUpd.gap = 0
    /\ Len(sock) = 1

(***************************************************************************)
(* Properties of the arrays of the Daily_Aggregator                        *)
(***************************************************************************)
\* C26: a steady-state update of the Daily_Aggregator that appends record
\* r to a buffer b of ROLLING_BUF_DAYS rows gives b' with b'[i] = b[i + 1]
\* for every row but the last and b'[last] = r, in the price rows and in
\* the date rows alike, so that row i of the prices and row i of the dates
\* are of the same day.
C26_RollAppend ==
    (/\ scenario = "Daily_Aggregator"
     /\ lastAgg.outcome = "published" /\ ~lastAgg.first)
      => LET b == lastAgg
             r == lastAgg.data.rows[1]
             W == ROLLING_BUF_DAYS
             d == dates[lastAgg.idx]
             p == prices[lastAgg.idx]
         IN  /\ Len(d) = W /\ Len(p) = W
             /\ \A i \in 1..(W - 1) :
                    d[i] = b.dates[i + 1] /\ p[i] = b.prices[i + 1]
             /\ d[W] = r.date /\ p[W] = r.price
             /\ \A i \in 1..W : p[i] = PriceOf(d[i])

\* the day after the newest day is appended to a buffer of consecutive days
C26_Witness ==
    /\ lastAgg.outcome = "published" /\ ~lastAgg.first
    /\ lastAgg.dates[1] + 1 = lastAgg.dates[2]
    /\ lastAgg.data.rows[1].date = LastOf(lastAgg.dates) + 1
    /\ dates[lastAgg.idx][1] = lastAgg.dates[2]
    /\ LastOf(dates[lastAgg.idx]) = LastOf(lastAgg.dates) + 1

\* C27 as stated: whatever the sizes of the two ticker lists, every symbol
\* of the daily list has a slot of its own in daily_prev_update, so that no
\* update of a daily symbol fails for want of the slot.
C27_DailySlotExists ==
    scenario = "Scraper._update_tickers" =>
        /\ Len(daily_prev_update) >= n_daily_tickers
        /\ lastUpd.outcome # "noslot"

C29_FirstFetchSendsNewestOnly ==
    scenario = "Scraper._update_tickers" =>
        LET rows == lastUpd.data.rows
            ticker_str == TickerStr(lastUpd.market, lastUpd.ii)
        IN  /\ (/\ lastUpd.outcome \notin {"none", "noslot"}
                /\ lastUpd.prev = None
                /\ ~lastUpd.data.raised /\ rows # <<>>)
                  => /\ lastUpd.outcome = "first"
                     /\ sock = << [ticker |-> ticker_str,
                                   date |-> rows[Len(rows)]] >>
                     /\ \A k \in 1..Len(rows) : rows[k] <= sock[1].date
                     /\ PrevUpdates(lastUpd.market)[lastUpd.ii + 1]
                            = sock[1].date
                     /\ \A p \in sent.pairs :
                            p[1] = ticker_str => p[2] = sock[1].date
            /\ lastUpd.outcome = "new" =>
                   \A k \in 1..Len(sock) : sock[k].date > lastUpd.prev

\* a first fetch of three records, of which only the newest is sent
C29_Witness ==
    /\ lastUpd.outcome = "first"
    /\ Len(lastUpd.data.rows) = 3
    /\ Len(sock) = 1
    /\ Cardinality(sent.pairs) = 1

\* C30: an update of the ticker at one index in the Daily_Aggregator, be it
\* a bootstrap, a roll or one that finds nothing new, changes the handle,
\* the price rows and the date rows of that index only: the entries of
\* every other index stay as they were.
C30_OtherIndexesUnchanged ==
    [][ (scenario = "Daily_Aggregator" /\ agg.pc = "loop") =>
            /\ lastAgg'.idx = agg.ii + 1
            /\ Len(tickers') = num_tickers
            /\ Len(prices') = num_tickers /\ Len(dates') = num_tickers
            /\ \A j \in 1..num_tickers :
                   j # agg.ii + 1 =>
                       /\ tickers'[j] = tickers[j]
                       /\ prices'[j] = prices[j]
                       /\ dates'[j] = dates[j] ]_vars

\* the second of two tickers has rolled; the first keeps another buffer
C30_Witness ==
    /\ num_tickers = 2
    /\ lastAgg.idx = 2 /\ lastAgg.outcome = "published" /\ ~lastAgg.first
    /\ tickers[1]
    /\ LastOf(dates[1]) = BootEnd
    /\ LastOf(dates[2]) = BootEnd + 1

\* C31: no polling cycle of Scraper.run starts before its trigger: whenever
\* the main loop is about to call _pull_data(), the time last read into
\* cur_time is at or after next_time (and the clock is not behind cur_time)
C31_NoCycleBeforeTrigger ==
    (scenario = "Scraper.run" /\ pc = "pull") =>
        /\ cur_time >= next_time
        /\ now >= cur_time

\* a cycle after the first is about to start, the wait loop having slept
\* up to its trigger and woken in the last second of the sleep granularity
C31_Witness ==
    /\ scenario = "Scraper.run" /\ pc = "pull"
    /\ pulls >= 1 /\ slept
    /\ cur_time = next_time + (SleepSecs - 1)

\* no character of the string is one str.split() splits at
NoWhitespace(str) == \A i \in 1..Len(str) : str[i] \notin Whitespace

\* the message is split into exactly three fields, and analyze() is called
\* with the symbol, the prices and the dates _publish() was called with
RoundTrip ==
    /\ Len(Split(analyzer.msg)) = 3
    /\ analyzer.run.called
    /\ analyzer.run.ticker = analyzer.sent
    /\ analyzer.run.prices = analyzer.prices
    /\ analyzer.run.dates = analyzer.dates

\* C32 as stated: for every symbol without whitespace and every (prices,
\* dates) pair, the message of Daily_Aggregator._publish, once received, is
\* split by Abstract_Analyzer.run into exactly three fields that decode to
\* the same symbol, the same prices and the same dates, in that order.
C32_WireRoundTrip ==
    (/\ scenario = "Abstract_Analyzer"
     /\ Len(analyzer.msg) > 0
     /\ Delivered(analyzer.ticker_strs, analyzer.msg)
     /\ NoWhitespace(analyzer.sent))
        => RoundTrip

\* the round trip of the symbols that are not empty: it holds for every one
\* of them without whitespace, with arrays of every padding length
C32_RoundTripOfNonEmptySymbols ==
    (/\ scenario = "Abstract_Analyzer"
     /\ Len(analyzer.msg) > 0
     /\ Delivered(analyzer.ticker_strs, analyzer.msg)
     /\ NoWhitespace(analyzer.sent)
     /\ Len(analyzer.sent) > 0)
        => RoundTrip

\* a received message of two symbol characters and two arrays of three cells
\* has made the round trip
C32_Witness ==
    /\ scenario = "Abstract_Analyzer"
    /\ analyzer.sent = <<"A", "B">>
    /\ Len(analyzer.prices) = 3 /\ Len(analyzer.dates) = 3
    /\ analyzer.prices # analyzer.dates
    /\ RoundTrip

====
